---- MODULE Spec2Model ----
(***************************************************************************)
(* A model of binmap (src/binmap/__init__.py): record types declared as    *)
(* dataclasses whose fields are descriptors, packed to and unpacked from   *)
(* fixed-width byte strings with Python's struct module.                   *)
(*                                                                         *)
(* Python values are records [t, n, s]: an int (bool included, True = 1),  *)
(* a bytes object, a str (an enum label, by index into LabelNames) or a    *)
(* callable (a calculated field's function, by id).                        *)
(***************************************************************************)
EXTENDS Integers, Sequences, FiniteSets, TLC

\* F(x) with x evaluated once, before F uses it: a local variable.
Eval(x, F(_)) == CHOOSE y \in {F(v) : v \in {x}} : TRUE

\* ------------------------------------------------------------ values

IntV(k) == [t |-> "int", n |-> k, s |-> <<>>]
BytesV(b) == [t |-> "bytes", n |-> 0, s |-> b]
StrV(i) == [t |-> "str", n |-> i, s |-> <<>>]
FnV(i) == [t |-> "fn", n |-> i, s |-> <<>>]

\* Python truthiness, as struct's "?" format takes it.
Truthy(v) ==
    CASE v.t = "int" -> v.n # 0
      [] v.t = "bytes" -> Len(v.s) > 0
      [] OTHER -> TRUE

\* callable(v) of __bytes__ and of the checksum function of the tests.
Callable(v) == v.t = "fn"

\* ------------------------------------------------------------ struct

\* One byte holds ByteRange values.
ByteRange == 256

\* The format character of each binmap type.
datatypemapping ==
    [unsignedchar |-> "B", signedchar |-> "b", unsignedshort |-> "H",
     boolean |-> "?", string |-> "s", pad |-> "x"]

\* Bytes a format item occupies (standard sizes, no alignment: the byte
\* order prefix is ">" or "<").
ItemSize(item) ==
    CASE item.code = "H" -> 2
      [] item.code \in {"s", "x"} -> item.count
      [] OTHER -> 1

RECURSIVE calcsize(_)
calcsize(fmt) ==
    IF fmt = <<>> THEN 0 ELSE ItemSize(Head(fmt)) + calcsize(Tail(fmt))

\* struct.pack accepts value v for one item of format code.
PackAccepts(code, v) ==
    CASE code = "B" -> v.t = "int" /\ 0 <= v.n /\ v.n <= ByteRange - 1
      [] code = "b" -> v.t = "int" /\ -(ByteRange \div 2) <= v.n
                                   /\ v.n <= (ByteRange \div 2) - 1
      [] code = "H" -> v.t = "int" /\ 0 <= v.n /\ v.n <= ByteRange * ByteRange - 1
      [] code = "?" -> TRUE
      [] code = "s" -> v.t = "bytes"
      [] OTHER -> FALSE

Zeros(k) == SubSeq(<<0, 0, 0, 0>>, 1, k)

\* The bytes struct.pack writes for an accepted value.
PackItem(item, v, byteorder) ==
    CASE item.code \in {"B", "b"} -> <<v.n % ByteRange>>
      [] item.code = "H" ->
            IF byteorder = ">"
            THEN <<v.n \div ByteRange, v.n % ByteRange>>
            ELSE <<v.n % ByteRange, v.n \div ByteRange>>
      [] item.code = "?" -> <<IF Truthy(v) THEN 1 ELSE 0>>
      [] item.code = "s" ->
            IF Len(v.s) >= item.count
            THEN SubSeq(v.s, 1, item.count)
            ELSE v.s \o Zeros(item.count - Len(v.s))

\* The value struct.unpack reads from the bytes of one item.
UnpackItem(item, b, byteorder) ==
    CASE item.code = "B" -> IntV(b[1])
      [] item.code = "b" ->
            IntV(IF b[1] >= ByteRange \div 2 THEN b[1] - ByteRange ELSE b[1])
      [] item.code = "H" ->
            IF byteorder = ">"
            THEN IntV(b[1] * ByteRange + b[2])
            ELSE IntV(b[2] * ByteRange + b[1])
      [] item.code = "?" -> IntV(IF b[1] # 0 THEN 1 ELSE 0)
      [] item.code = "s" -> BytesV(b)

\* struct.pack(fmt, *values): "x" items take no value and write zeros.
\* The result is [ok, out]; ok is FALSE where struct.error is raised.
RECURSIVE pack(_, _, _)
pack(fmt, values, byteorder) ==
    IF fmt = <<>>
    THEN [ok |-> values = <<>>, out |-> <<>>]
    ELSE LET item == Head(fmt) IN
         IF item.code = "x"
         THEN Eval(pack(Tail(fmt), values, byteorder), LAMBDA r :
                   [ok |-> r.ok, out |-> Zeros(item.count) \o r.out])
         ELSE IF values = <<>> \/ ~PackAccepts(item.code, Head(values))
         THEN [ok |-> FALSE, out |-> <<>>]
         ELSE Eval(pack(Tail(fmt), Tail(values), byteorder), LAMBDA r :
                   [ok |-> r.ok,
                    out |-> PackItem(item, Head(values), byteorder) \o r.out])

\* struct.unpack(fmt, buffer) for a buffer of calcsize(fmt) bytes: the
\* values of the non-padding items, in format order.
RECURSIVE unpack(_, _, _)
unpack(fmt, buf, byteorder) ==
    IF fmt = <<>> THEN <<>>
    ELSE LET item == Head(fmt)
             k == ItemSize(item)
             rest == unpack(Tail(fmt), SubSeq(buf, k + 1, Len(buf)), byteorder)
         IN IF item.code = "x" THEN rest
            ELSE <<UnpackItem(item, SubSeq(buf, 1, k), byteorder)>> \o rest

\* ------------------------------------------------------------ fields

\* The field generator functions: each gives the default, the init flag
\* and the metadata of a dataclasses.Field.
plainfield(default) == [default |-> default, init |-> TRUE, metadata |-> <<>>]

padding(length) ==
    [default |-> IntV(length), init |-> TRUE, metadata |-> [padding |-> TRUE]]

constant(value) ==
    [default |-> value, init |-> FALSE, metadata |-> [constant |-> TRUE]]

autolength(offset) ==
    [default |-> IntV(offset), init |-> FALSE, metadata |-> [autolength |-> TRUE]]

stringfield(length, default) ==
    [default |-> IF default = BytesV(<<>>) THEN BytesV(Zeros(length)) ELSE default,
     init |-> TRUE, metadata |-> [length |-> length]]

enumfield(enumclass, default) ==
    [default |-> default, init |-> TRUE, metadata |-> [enum |-> enumclass]]

calculatedfield(function, last) ==
    [default |-> IntV(0), init |-> TRUE,
     metadata |-> [function |-> function, last |-> last]]

\* A declaration  name: type = field.
Decl(name, type, field) ==
    [name |-> name, type |-> type, default |-> field.default,
     init |-> field.init, metadata |-> field.metadata]

Has(f, key) == key \in DOMAIN f.metadata

Range(fs) == {fs[i] : i \in 1..Len(fs)}

\* An IntEnum class, as WindEnum of the tests: its labels and their values.
WindEnum == [North |-> 0, East |-> 1]

\* The str values a caller may write: indices into LabelNames.
LabelNames == <<"East", "Norhtwest">>

\* The functions of the calculated fields of the tests, by id.
FnChk == 1
FnChkLast == 2

\* ------------------------------------------------------------ classes

\* The record types of the model: the classes of the tests, on the types
\* of datatypemapping that take one or two bytes, and classes that put a
\* calculated field before the fields its function reads.
ClassDefs ==
    [TempHum |->
        [base |-> "BinmapDataclass", byteorder |-> ">", own |-> <<
            Decl("temp", "unsignedchar", plainfield(IntV(0))),
            Decl("humidity", "unsignedchar", plainfield(IntV(0)))>>],
     Littleedian |->
        [base |-> "BinmapDataclass", byteorder |-> "<", own |-> <<
            Decl("value", "unsignedshort", plainfield(IntV(0)))>>],
     Pad |->
        [base |-> "BinmapDataclass", byteorder |-> ">", own |-> <<
            Decl("temp", "unsignedchar", plainfield(IntV(0))),
            Decl("pad", "pad", padding(2)),
            Decl("humidity", "unsignedchar", plainfield(IntV(0)))>>],
     Strings |->
        [base |-> "BinmapDataclass", byteorder |-> ">", own |-> <<
            Decl("identity", "string", stringfield(2, BytesV(<<>>)))>>],
     Boolean |->
        [base |-> "BinmapDataclass", byteorder |-> ">", own |-> <<
            Decl("boolean", "boolean", plainfield(IntV(0)))>>],
     EnumClass |->
        [base |-> "BinmapDataclass", byteorder |-> ">", own |-> <<
            Decl("temp", "unsignedchar", plainfield(IntV(0))),
            Decl("wind", "unsignedchar", enumfield(WindEnum, IntV(1)))>>],
     ConstValues |->
        [base |-> "BinmapDataclass", byteorder |-> ">", own |-> <<
            Decl("datatype", "unsignedchar", constant(IntV(1))),
            Decl("status", "unsignedchar", plainfield(IntV(0)))>>],
     ConstChild |->
        [base |-> "ConstValues", byteorder |-> ">", own |-> <<
            Decl("humidity", "unsignedchar", plainfield(IntV(0)))>>],
     AutoLengthOffset |->
        [base |-> "BinmapDataclass", byteorder |-> ">", own |-> <<
            Decl("length", "unsignedchar", autolength(-1)),
            Decl("temp", "signedchar", plainfield(IntV(0)))>>],
     AutoLengthChild |->
        [base |-> "AutoLengthOffset", byteorder |-> ">", own |-> <<
            Decl("humidity", "unsignedchar", plainfield(IntV(0)))>>],
     CalculatedField |->
        [base |-> "BinmapDataclass", byteorder |-> ">", own |-> <<
            Decl("temp", "signedchar", plainfield(IntV(0))),
            Decl("hum", "unsignedchar", plainfield(IntV(0))),
            Decl("checksum", "unsignedchar", calculatedfield(FnChk, FALSE))>>],
     CalculatedFieldFirst |->
        [base |-> "BinmapDataclass", byteorder |-> ">", own |-> <<
            Decl("checksum", "unsignedchar", calculatedfield(FnChk, FALSE)),
            Decl("temp", "signedchar", plainfield(IntV(0))),
            Decl("hum", "unsignedchar", plainfield(IntV(0)))>>],
     CalculatedFieldLast |->
        [base |-> "BinmapDataclass", byteorder |-> ">", own |-> <<
            Decl("temp", "signedchar", plainfield(IntV(0))),
            Decl("checksum", "unsignedchar", calculatedfield(FnChkLast, TRUE)),
            Decl("hum", "unsignedchar", plainfield(IntV(0)))>>],
     ConstLast |->
        [base |-> "BinmapDataclass", byteorder |-> ">", own |-> <<
            Decl("checksum", "unsignedchar", calculatedfield(FnChkLast, TRUE)),
            Decl("datatype", "unsignedchar", constant(IntV(1))),
            Decl("status", "unsignedchar", plainfield(IntV(0)))>>],
     CalculatedFieldLastInherit |->
        [base |-> "CalculatedFieldLast", byteorder |-> ">", own |-> <<
            Decl("datatype", "unsignedchar", constant(IntV(1)))>>],
     CalculatedFieldMultiLast |->
        [base |-> "BinmapDataclass", byteorder |-> ">", own |-> <<
            Decl("temp", "unsignedchar", plainfield(IntV(0))),
            Decl("checksum1", "unsignedchar", calculatedfield(FnChk, TRUE)),
            Decl("checksum2", "unsignedchar", calculatedfield(FnChk, TRUE))>>],
     CalculatedFieldMultiLastInherit |->
        [base |-> "CalculatedFieldLast", byteorder |-> ">", own |-> <<
            Decl("checksum2", "unsignedchar", calculatedfield(FnChk, TRUE))>>],
     MultiLastGrandchild |->
        [base |-> "CalculatedFieldLastInherit", byteorder |-> ">", own |-> <<
            Decl("checksum2", "unsignedchar", calculatedfield(FnChk, TRUE))>>]]

Classes == DOMAIN ClassDefs

\* dataclasses.fields of the class called name: the fields of the bases,
\* then the class's own.
RECURSIVE DataclassFields(_)
DataclassFields(name) ==
    IF name = "BinmapDataclass" THEN <<>>
    ELSE DataclassFields(ClassDefs[name].base) \o ClassDefs[name].own

\* dataclasses.fields(cls), for a class object c (see ClassObject).
fields(c) == c.fields

\* A format item that drops the repeat count of a padding field.
FieldType_padonce(f) ==
    IF f.type = "string"
    THEN [code |-> datatypemapping[f.type], count |-> f.metadata.length]
    ELSE [code |-> datatypemapping[f.type], count |-> 1]

\* The format item of a field: lines 222 and 232-235 of __init_subclass__.
FieldType(f) ==
    IF f.type = "pad"
    THEN [code |-> datatypemapping[f.type], count |-> f.default.n]
    ELSE IF f.type = "string"
    THEN [code |-> datatypemapping[f.type], count |-> f.metadata.length]
    ELSE [code |-> datatypemapping[f.type], count |-> 1]

IsLast(f) == Has(f, "last") /\ f.metadata.last

\* The loop of __init_subclass__ over fs: formatstring is the format so
\* far, lastfield the format of the field marked last (<<>> for "").
RECURSIVE InitSubclassLoop(_, _, _)
InitSubclassLoop(fs, formatstring, lastfield) ==
    IF fs = <<>>
    THEN [err |-> "", formatstring |-> formatstring \o lastfield]
    ELSE LET f == Head(fs) IN
         IF IsLast(f)
         THEN IF lastfield # <<>>
              THEN [err |-> "Can't have more than one last", formatstring |-> <<>>]
              ELSE InitSubclassLoop(Tail(fs), formatstring, <<FieldType(f)>>)
         ELSE InitSubclassLoop(Tail(fs), formatstring \o <<FieldType(f)>>, lastfield)

\* A class statement that looks for a second last field only among the
\* fields the class declares itself.
init_subclass_own(name) ==
    [err |-> InitSubclassLoop(ClassDefs[name].own, <<>>, <<>>).err,
     formatstring |-> InitSubclassLoop(DataclassFields(name), <<>>, <<>>).formatstring]

\* __init_subclass__ for the class called name: [err, formatstring], the
\* class-level format (its byte order character is kept beside it).
init_subclass(name) == InitSubclassLoop(DataclassFields(name), <<>>, <<>>)

\* The class object the class statement leaves: its dataclass fields (own
\* are the names it annotates itself, inherited those of its bases) and
\* the attributes __init_subclass__ sets; err is the exception the class
\* statement raised ("" for none), and then no class exists.
ClassObject(name) ==
    [name |-> name,
     err |-> init_subclass(name).err,
     fields |-> DataclassFields(name),
     own |-> {ClassDefs[name].own[i].name : i \in 1..Len(ClassDefs[name].own)},
     inherited |-> {DataclassFields(ClassDefs[name].base)[i].name :
                      i \in 1..Len(DataclassFields(ClassDefs[name].base))},
     byteorder |-> ClassDefs[name].byteorder,
     formatstring |-> init_subclass(name).formatstring]

\* cls.__formatstring
formatstring(c) == c.formatstring

\* cls.__formatstring's byte order character
byteorder(c) == c.byteorder

\* The descriptor class __init_subclass__ puts on the class for a field.
Descriptor(f) ==
    IF Has(f, "constant") THEN "ConstField"
    ELSE IF Has(f, "enum") THEN "EnumField"
    ELSE IF Has(f, "autolength") THEN "ConstField"
    ELSE IF Has(f, "function") THEN "CalculatedField"
    ELSE IF f.type = "pad" THEN "PaddingField"
    ELSE "BinField"

\* ------------------------------------------------------------ instances

\* An instance's __dict__ is a sequence of [k, v] items in insertion order.
DictHas(d, k) == \E i \in 1..Len(d) : d[i].k = k

DictIndex(d, k) == CHOOSE i \in 1..Len(d) : d[i].k = k

DictGet(d, k) == d[DictIndex(d, k)].v

\* d[k] = v and d.update({k: v}): an existing key keeps its place.
DictSet(d, k, v) ==
    IF DictHas(d, k)
    THEN SubSeq(d, 1, DictIndex(d, k) - 1) \o <<[k |-> k, v |-> v]>>
         \o SubSeq(d, DictIndex(d, k) + 1, Len(d))
    ELSE Append(d, [k |-> k, v |-> v])

\* del d[k]
DictDel(d, k) == SelectSeq(d, LAMBDA it : it.k # k)

FieldOf(c, name) ==
    LET fs == fields(c) IN fs[CHOOSE i \in 1..Len(fs) : fs[i].name = name]

FieldNames(fs) == {fs[i].name : i \in 1..Len(fs)}

\* def chk(self) of the tests: (self.temp + self.hum) & 0xFF.
chk(d) ==
    IF ~DictHas(d, "temp") \/ ~DictHas(d, "hum")
    THEN [err |-> "KeyError", v |-> IntV(0)]
    ELSE LET a == DictGet(d, "temp")
             b == DictGet(d, "hum")
         IN IF a.t # "int" \/ b.t # "int"
            THEN [err |-> "TypeError", v |-> IntV(0)]
            ELSE [err |-> "", v |-> IntV((a.n + b.n) % ByteRange)]

\* The loop of chk_last of the tests: the sum of the values of __dict__
\* that are not callable.
RECURSIVE ChkLastSum(_)
ChkLastSum(d) ==
    IF d = <<>> THEN [err |-> "", n |-> 0]
    ELSE Eval(ChkLastSum(Tail(d)), LAMBDA r :
              IF Callable(Head(d).v) THEN r
              ELSE IF Head(d).v.t # "int" THEN [err |-> "TypeError", n |-> 0]
              ELSE [err |-> r.err, n |-> Head(d).v.n + r.n])

chk_last(d) ==
    Eval(ChkLastSum(d), LAMBDA r : [err |-> r.err, v |-> IntV(r.n % ByteRange)])

\* function(self) for the function of a calculated field.
Call(fn, d) == IF fn = FnChk THEN chk(d) ELSE chk_last(d)

\* BinField.__set__: the value is packed alone with the type's format
\* character (no byte order, no length), then stored.
BinField__set__(c, d, name, value) ==
    LET code == datatypemapping[FieldOf(c, name).type]
    IN IF name \in c.own \/ name \in c.inherited
       THEN IF PackAccepts(code, value)
            THEN [err |-> "", d |-> DictSet(d, name, value)]
            ELSE [err |-> "struct.error", d |-> d]
       ELSE [err |-> "ValueError", d |-> d]

\* A padding descriptor that stores the value it is given.
PaddingField__set__store(c, d, name, value) ==
    [err |-> "", d |-> DictSet(d, name, value)]

\* PaddingField.__set__ does nothing.
PaddingField__set__(c, d, name, value) == [err |-> "", d |-> d]

\* EnumField.__set__: a str is looked up by name, anything else by value;
\* the value written is stored as it came.
EnumField__set__(c, d, name, value) ==
    LET enum == FieldOf(c, name).metadata.enum IN
    IF value.t = "str"
    THEN IF LabelNames[value.n] \in DOMAIN enum
         THEN [err |-> "", d |-> DictSet(d, name, value)]
         ELSE [err |-> "KeyError", d |-> d]
    ELSE IF value.t = "int" /\ \E l \in DOMAIN enum : enum[l] = value.n
         THEN [err |-> "", d |-> DictSet(d, name, value)]
         ELSE [err |-> "ValueError", d |-> d]

\* A constant descriptor that stores every value it is given.
ConstField__set__always(c, d, name, value) ==
    [err |-> "", d |-> DictSet(d, name, value)]

\* ConstField.__set__
ConstField__set__(c, d, name, value) ==
    IF DictHas(d, name)
    THEN [err |-> "AttributeError", d |-> d]
    ELSE [err |-> "", d |-> DictSet(d, name, value)]

\* A calculated descriptor that stores the value it is given.
CalculatedField__set__store(c, d, name, value) ==
    [err |-> "", d |-> DictSet(d, name, value)]

\* CalculatedField.__set__
CalculatedField__set__(c, d, name, value) ==
    IF DictHas(d, name)
    THEN [err |-> "AttributeError", d |-> d]
    ELSE [err |-> "", d |-> d]

\* setattr(self, name, value) through the field's descriptor.
SetAttr(c, d, name, value) ==
    LET desc == Descriptor(FieldOf(c, name)) IN
    CASE desc = "BinField" -> BinField__set__(c, d, name, value)
      [] desc = "PaddingField" -> PaddingField__set__(c, d, name, value)
      [] desc = "EnumField" -> EnumField__set__(c, d, name, value)
      [] desc = "ConstField" -> ConstField__set__(c, d, name, value)
      [] desc = "CalculatedField" -> CalculatedField__set__(c, d, name, value)

\* getattr(self, name) through the field's descriptor: BinField.__get__,
\* PaddingField.__get__ and CalculatedField.__get__.
GetAttr(c, d, name) ==
    LET f == FieldOf(c, name)
        desc == Descriptor(f)
    IN CASE desc = "PaddingField" -> [err |-> "AttributeError", v |-> IntV(0)]
         [] desc = "CalculatedField" -> Call(f.metadata.function, d)
         [] OTHER -> IF DictHas(d, name)
                     THEN [err |-> "", v |-> DictGet(d, name)]
                     ELSE [err |-> "KeyError", v |-> IntV(0)]

\* ------------------------------------------------------------ methods

\* The assignments of the dataclass __init__, self.name = value for the
\* fields with init=True in order; kw maps the names the caller passed.
RECURSIVE InitLoop(_, _, _, _)
InitLoop(c, fs, kw, d) ==
    IF fs = <<>> THEN [err |-> "", d |-> d]
    ELSE LET f == Head(fs) IN
         IF ~f.init THEN InitLoop(c, Tail(fs), kw, d)
         ELSE LET value == IF f.name \in DOMAIN kw THEN kw[f.name] ELSE f.default
              IN Eval(SetAttr(c, d, f.name, value), LAMBDA r :
                      IF r.err # "" THEN r ELSE InitLoop(c, Tail(fs), kw, r.d))

\* __init__(self, **kw): a name that is no init=True field is an
\* unexpected keyword argument (constant() and autolength() set init=False).
init(c, kw) ==
    IF \E name \in DOMAIN kw :
          \A i \in 1..Len(fields(c)) : fields(c)[i].name # name \/ ~fields(c)[i].init
    THEN [err |-> "TypeError", d |-> <<>>]
    ELSE InitLoop(c, fields(c), kw, <<>>)

\* A length taken from the format of the class that declares the field.
AutoLengthValue_declaring(c, f) ==
    IntV(calcsize(init_subclass(IF f.name \in c.own THEN c.name
                                ELSE ClassDefs[c.name].base).formatstring)
         + f.default.n)

\* The value __post_init__ stores for the autolength field f: the size of
\* the format of the instance's class plus the field's offset.
AutoLengthValue(c, f) == IntV(calcsize(formatstring(c)) + f.default.n)

\* One pass of the loop of __post_init__, for field f; st is [err, d,
\* datafields, datafieldsmap], the instance's __dict__ and the two class
\* attributes.
PostInitStep(c, f, st) ==
    LET map == st.datafieldsmap \cup {f.name}
        d1 == IF Has(f, "constant") THEN DictSet(st.d, f.name, f.default)
              ELSE st.d
        d2 == IF Has(f, "autolength")
              THEN DictSet(d1, f.name, AutoLengthValue(c, f))
              ELSE d1
    IN IF Has(f, "padding")
       THEN [st EXCEPT !.datafieldsmap = map]
       ELSE IF Has(f, "function")
       THEN [err |-> "", d |-> DictSet(d2, f.name, FnV(f.metadata.function)),
             datafields |-> Append(st.datafields, f.name),
             datafieldsmap |-> map]
       ELSE Eval(GetAttr(c, d2, f.name), LAMBDA val :
                 IF val.err # ""
                 THEN [st EXCEPT !.err = val.err, !.d = d2, !.datafieldsmap = map]
                 ELSE [err |-> "",
                       d |-> DictSet(DictDel(d2, f.name), f.name, val.v),
                       datafields |-> Append(st.datafields, f.name),
                       datafieldsmap |-> map])

\* The loop of __post_init__ over the fields fs.
RECURSIVE PostInitLoop(_, _, _)
PostInitLoop(c, fs, st) ==
    IF fs = <<>> \/ st.err # "" THEN st
    ELSE Eval(PostInitStep(c, Head(fs), st), LAMBDA s1 :
              PostInitLoop(c, Tail(fs), s1))

\* One pass of the loop of frombytes: arg is compared with, or assigned
\* to, the field called name.
FrombytesStep(c, d, arg, name, map) ==
    LET f == FieldOf(c, name) IN
    IF name \notin map THEN [err |-> "KeyError", d |-> d]
    ELSE IF Has(f, "constant")
    THEN IF arg # f.default
         THEN [err |-> "Constant doesn't match binary data", d |-> d]
         ELSE [err |-> "", d |-> d]
    ELSE IF Has(f, "autolength")
    THEN Eval(GetAttr(c, d, name), LAMBDA cur :
              IF cur.err # "" THEN [err |-> cur.err, d |-> d]
              ELSE IF arg # cur.v THEN [err |-> "Length doesn't match", d |-> d]
              ELSE [err |-> "", d |-> d])
    ELSE IF Has(f, "function")
    THEN Eval(Call(f.metadata.function, d), LAMBDA cur :
              IF cur.err # "" THEN [err |-> cur.err, d |-> d]
              ELSE IF arg # cur.v THEN [err |-> "Wrong calculated value", d |-> d]
              ELSE [err |-> "", d |-> d])
    ELSE SetAttr(c, d, name, arg)

\* The loop of frombytes over zip(args, datafields), from index i.
RECURSIVE FrombytesLoop(_, _, _, _, _, _)
FrombytesLoop(c, d, args, names, map, i) ==
    IF i > Len(args) \/ i > Len(names) THEN [err |-> "", d |-> d]
    ELSE Eval(FrombytesStep(c, d, args[i], names[i], map), LAMBDA r :
              IF r.err # "" THEN r
              ELSE FrombytesLoop(c, r.d, args, names, map, i + 1))

\* A frombytes that runs the loop on what the buffer holds and looks at
\* its length afterwards.
frombytes_lengthlast(c, d, names, map, value) ==
    LET n == calcsize(formatstring(c))
        v == SubSeq(value \o Zeros(n), 1, n)
    IN Eval(unpack(formatstring(c), v, byteorder(c)), LAMBDA args :
            Eval(FrombytesLoop(c, d, args, names, map, 1), LAMBDA r :
                 IF r.err = "" /\ Len(value) # n
                 THEN [err |-> "struct.error", d |-> r.d]
                 ELSE r))

\* frombytes(self, value): struct.unpack raises unless value has the size
\* of the format; the result is [err, d], d the __dict__ it leaves.
frombytes(c, d, names, map, value) ==
    IF Len(value) # calcsize(formatstring(c))
    THEN [err |-> "struct.error", d |-> d]
    ELSE Eval(unpack(formatstring(c), value, byteorder(c)), LAMBDA args :
              FrombytesLoop(c, d, args, names, map, 1))

\* __post_init__(self, _binarydata)
post_init(c, d, names, map, binarydata) ==
    Eval(PostInitLoop(c, fields(c),
             [err |-> "", d |-> d, datafields |-> names, datafieldsmap |-> map]),
         LAMBDA st :
             IF st.err # "" \/ binarydata = <<>> THEN st
             ELSE Eval(frombytes(c, st.d, st.datafields, st.datafieldsmap,
                                 binarydata),
                       LAMBDA r : [st EXCEPT !.err = r.err, !.d = r.d]))

\* A loop that leaves the value of the field marked last where it is.
RECURSIVE BytesLoop_inplace(_, _, _, _, _, _)
BytesLoop_inplace(c, d, map, i, values, lastvalue) ==
    IF i > Len(d)
    THEN [err |-> "", values |-> values]
    ELSE Eval(IF Callable(d[i].v) THEN Call(d[i].v.n, d)
              ELSE [err |-> "", v |-> d[i].v],
              LAMBDA v :
                  IF v.err # "" THEN [err |-> v.err, values |-> <<>>]
                  ELSE BytesLoop_inplace(c, d, map, i + 1, Append(values, v.v),
                                         lastvalue))

\* The loop of __bytes__ over self.__dict__.items(), from item i: values
\* are the values collected, lastvalue is <<>> for None or <<v>>.
RECURSIVE BytesLoop(_, _, _, _, _, _)
BytesLoop(c, d, map, i, values, lastvalue) ==
    IF i > Len(d)
    THEN [err |-> "", values |-> values \o lastvalue]
    ELSE LET k == d[i].k IN
         Eval(IF Callable(d[i].v) THEN Call(d[i].v.n, d)
              ELSE [err |-> "", v |-> d[i].v],
              LAMBDA v :
                  IF v.err # "" THEN [err |-> v.err, values |-> <<>>]
                  ELSE IF k \notin map THEN [err |-> "KeyError", values |-> <<>>]
                  ELSE IF IsLast(FieldOf(c, k))
                  THEN BytesLoop(c, d, map, i + 1, values, <<v.v>>)
                  ELSE BytesLoop(c, d, map, i + 1, Append(values, v.v), lastvalue))

\* __bytes__(self): [err, out].
bytes(c, d, map) ==
    Eval(BytesLoop(c, d, map, 1, <<>>, <<>>), LAMBDA vs :
         IF vs.err # "" THEN [err |-> vs.err, out |-> <<>>]
         ELSE Eval(pack(formatstring(c), vs.values, byteorder(c)), LAMBDA r :
                   IF ~r.ok THEN [err |-> "struct.error", out |-> <<>>]
                   ELSE [err |-> "", out |-> r.out]))

\* ------------------------------------------------------------ inputs

\* Instances constructed of one class in one behaviour.
MaxInstances == 2

\* The values a caller writes to field f or passes for it to the
\* constructor: integers in and out of range and a value of another type;
\* for a string field byte strings shorter than, as long as and longer
\* than the field; for an enum field also the labels.
WriteValues(f) ==
    IF f.type = "string"
    THEN {BytesV(<<1>>), BytesV(<<1, 2>>), BytesV(<<1, 2, 1>>), IntV(1)}
    ELSE IF Has(f, "enum")
    THEN {IntV(n) : n \in {0, 1, 255}} \cup {BytesV(<<1>>)}
         \cup {StrV(i) : i \in 1..Len(LabelNames)}
    ELSE IF Descriptor(f) = "BinField"
    THEN {IntV(n) : n \in {-1, 1, 255, 256}} \cup {BytesV(<<1>>)}
    ELSE {IntV(1), IntV(255)}

\* The bytes of the buffers a caller decodes.
BufferBytes == {1, 2}

BuffersOfLen(n) == [1..n -> BufferBytes]

\* Buffers of the size of the class's format, and those one byte shorter
\* or longer.
Buffers(c) ==
    LET n == calcsize(formatstring(c)) IN
    BuffersOfLen(n)
    \cup {[i \in 1..m |-> x] : x \in BufferBytes, m \in {n - 1, n + 1}}

\* The keyword arguments of a constructor call: none, or one field of the
\* class with a value (the other fields are written after construction).
Kwargs(c) ==
    {<<>>} \cup UNION {[{f.name} -> WriteValues(f)] : f \in Range(fields(c))}

\* ------------------------------------------------------------ state

VARIABLES
    cls,            \* the class object of the behaviour's record type
    datafields,     \* cls.__datafields, the class-level list of names
    datafieldsmap,  \* the names in cls.__datafieldsmap
    obj,            \* the instance in use: [live, d], d its __dict__
    last,           \* the last call and what it gave
    threads,        \* the threads that use cls at once, each with its instance
    insts,          \* the instances of a family of classes, in order of construction
    classvars,      \* the class attributes of each class of the family
    acted           \* the call last made on an instance of the family

vars == <<cls, datafields, datafieldsmap, obj, last, threads, insts, classvars, acted>>

\* What a caller that uses one instance in one thread leaves alone.
others == <<threads, insts, classvars, acted>>

NoAct == [op |-> "none", i |-> 0, err |-> "", buf |-> <<>>]

\* last: the call (op), the exception it raised (err, "" for none), what
\* was passed (kw: the keyword names of a constructor call; name, value:
\* the attribute written; buf: the bytes decoded) and the bytes returned.
NoCall ==
    [op |-> "none", err |-> "", kw |-> {}, name |-> "", value |-> IntV(0),
     buf |-> <<>>, out |-> <<>>]

\* The number of names one construction appends to cls.__datafields.
Appended(c) == Cardinality({i \in 1..Len(fields(c)) : ~Has(fields(c)[i], "padding")})

\* The bytes the last call returned, for a caller that decodes them next.
Echo == IF last.op = "bytes" /\ last.err = "" THEN {last.out} ELSE {}

\* The state once the class statement has run: __init_subclass__ has set
\* the class attributes, or has raised, and no instance exists.
Init ==
    /\ cls \in {ClassObject(name) : name \in Classes}
    /\ datafields = <<>>
    /\ datafieldsmap = {}
    /\ obj = [live |-> FALSE, d |-> <<>>]
    /\ last = NoCall
    /\ threads = <<>>
    /\ insts = <<>>
    /\ classvars = <<>>
    /\ acted = NoAct

\* cls(**kw) or cls(binarydata): __init__ then __post_init__. The new
\* instance replaces the one in use unless the call raises; the class
\* attributes keep what __post_init__ did to them either way.
Construct(kw, binarydata) ==
    /\ cls.err = ""
    /\ Len(datafields) < MaxInstances * Appended(cls)
    /\ \E r \in {init(cls, kw)} :
          IF r.err # ""
          THEN /\ last' = [NoCall EXCEPT !.op = "construct", !.err = r.err,
                                         !.kw = DOMAIN kw, !.buf = binarydata]
               /\ UNCHANGED <<datafields, datafieldsmap, obj>>
          ELSE \E st \in {post_init(cls, r.d, datafields, datafieldsmap, binarydata)} :
               /\ datafields' = st.datafields
               /\ datafieldsmap' = st.datafieldsmap
               /\ obj' = IF st.err = "" THEN [live |-> TRUE, d |-> st.d] ELSE obj
               /\ last' = [NoCall EXCEPT !.op = "construct", !.err = st.err,
                                         !.kw = DOMAIN kw, !.buf = binarydata]
    /\ UNCHANGED <<cls, others>>

\* self.name = value
Write(name, value) ==
    /\ obj.live
    /\ \E r \in {SetAttr(cls, obj.d, name, value)} :
       /\ obj' = [obj EXCEPT !.d = r.d]
       /\ last' = [NoCall EXCEPT !.op = "write", !.err = r.err,
                                 !.name = name, !.value = value]
    /\ UNCHANGED <<cls, datafields, datafieldsmap, others>>

\* bytes(self)
Encode ==
    /\ obj.live
    /\ \E r \in {bytes(cls, obj.d, datafieldsmap)} :
       last' = [NoCall EXCEPT !.op = "bytes", !.err = r.err, !.out = r.out]
    /\ UNCHANGED <<cls, datafields, datafieldsmap, obj, others>>

\* self.frombytes(value)
Decode(value) ==
    /\ obj.live
    /\ \E r \in {frombytes(cls, obj.d, datafields, datafieldsmap, value)} :
       /\ obj' = [obj EXCEPT !.d = r.d]
       /\ last' = [NoCall EXCEPT !.op = "frombytes", !.err = r.err, !.buf = value]
    /\ UNCHANGED <<cls, datafields, datafieldsmap, others>>

Next ==
    \/ \E kw \in Kwargs(cls) : Construct(kw, <<>>)
    \/ \E b \in (Buffers(cls) \cup Echo) \ {<<>>} : Construct(<<>>, b)
    \/ \E f \in Range(fields(cls)) : \E value \in WriteValues(f) : Write(f.name, value)
    \/ Encode
    \/ \E b \in Buffers(cls) \cup Echo : Decode(b)

Spec == Init /\ [][Next]_vars

\* ------------------------------------------------------------ threads

\* Two threads use one class at once: each constructs its own instance,
\* encodes it and decodes a buffer into it. A thread can be preempted
\* between two passes of a loop of __post_init__ or of frombytes.
Threads == {"A", "B"}

\* The classes the threads use.
ThreadClasses == {"TempHum", "Pad", "ConstValues"}

\* A thread: where it is (pc), its instance's __dict__ (d), the index of
\* the next pass of the loop it is in (k), the values frombytes unpacked
\* (args) from the buffer (buf), what encode returned (out) and the
\* exception that ended it (err).
NotStarted ==
    [pc |-> "start", d |-> <<>>, k |-> 0, args |-> <<>>, buf |-> <<>>,
     out |-> <<>>, err |-> ""]

InitThreads ==
    /\ cls \in {ClassObject(name) : name \in ThreadClasses}
    /\ datafields = <<>>
    /\ datafieldsmap = {}
    /\ threads = [t \in Threads |-> NotStarted]
    /\ obj = [live |-> FALSE, d |-> <<>>]
    /\ last = NoCall
    /\ insts = <<>>
    /\ classvars = <<>>
    /\ acted = NoAct

\* cls(): the generated __init__ stores the defaults in the new instance.
ThreadInit(t) ==
    /\ threads[t].pc = "start"
    /\ \E r \in {init(cls, <<>>)} :
          threads' = [threads EXCEPT ![t] =
              [@ EXCEPT !.pc = IF r.err = "" THEN "post_init" ELSE "done",
                        !.d = r.d, !.k = 1, !.err = r.err]]
    /\ UNCHANGED <<cls, datafields, datafieldsmap, obj, last, insts, classvars, acted>>

\* One pass of the loop of __post_init__, on the class attributes as they
\* are when the thread runs it.
ThreadPostInitStep(t) ==
    /\ threads[t].pc = "post_init"
    /\ \E st \in {PostInitStep(cls, fields(cls)[threads[t].k],
                      [err |-> "", d |-> threads[t].d,
                       datafields |-> datafields,
                       datafieldsmap |-> datafieldsmap])} :
          /\ datafields' = st.datafields
          /\ datafieldsmap' = st.datafieldsmap
          /\ threads' = [threads EXCEPT ![t] =
                [@ EXCEPT !.pc = IF st.err # "" THEN "done"
                                 ELSE IF threads[t].k = Len(fields(cls)) THEN "ready"
                                 ELSE "post_init",
                          !.d = st.d, !.k = @ + 1, !.err = st.err]]
    /\ UNCHANGED <<cls, obj, last, insts, classvars, acted>>

\* bytes(self) on the thread's instance.
ThreadEncode(t) ==
    /\ threads[t].pc = "ready"
    /\ \E r \in {bytes(cls, threads[t].d, datafieldsmap)} :
          threads' = [threads EXCEPT ![t] =
              [@ EXCEPT !.pc = IF r.err = "" THEN "encoded" ELSE "done",
                        !.out = r.out, !.err = r.err]]
    /\ UNCHANGED <<cls, datafields, datafieldsmap, obj, last, insts, classvars, acted>>

\* self.frombytes(value) up to its loop: struct.unpack.
ThreadFrombytes(t, value) ==
    /\ threads[t].pc \in {"ready", "encoded"}
    /\ threads' = [threads EXCEPT ![t] =
          IF Len(value) # calcsize(formatstring(cls))
          THEN [@ EXCEPT !.pc = "done", !.buf = value, !.err = "struct.error"]
          ELSE [@ EXCEPT !.pc = "frombytes", !.buf = value, !.k = 1,
                         !.args = unpack(formatstring(cls), value, byteorder(cls))]]
    /\ UNCHANGED <<cls, datafields, datafieldsmap, obj, last, insts, classvars, acted>>

\* One pass of the loop of frombytes over zip(args, self.__datafields):
\* the list is read as it is when the thread runs the pass.
ThreadFrombytesStep(t) ==
    /\ threads[t].pc = "frombytes"
    /\ IF threads[t].k > Len(threads[t].args) \/ threads[t].k > Len(datafields)
       THEN threads' = [threads EXCEPT ![t] = [@ EXCEPT !.pc = "done"]]
       ELSE \E r \in {FrombytesStep(cls, threads[t].d, threads[t].args[threads[t].k],
                                    datafields[threads[t].k], datafieldsmap)} :
               threads' = [threads EXCEPT ![t] =
                   [@ EXCEPT !.pc = IF r.err = "" THEN "frombytes" ELSE "done",
                             !.d = r.d, !.k = @ + 1, !.err = r.err]]
    /\ UNCHANGED <<cls, datafields, datafieldsmap, obj, last, insts, classvars, acted>>

NextThreads ==
    \/ \E t \in Threads : ThreadInit(t)
    \/ \E t \in Threads : ThreadPostInitStep(t)
    \/ \E t \in Threads : ThreadEncode(t)
    \/ \E t \in Threads :
          \E b \in BuffersOfLen(calcsize(formatstring(cls))) : ThreadFrombytes(t, b)
    \/ \E t \in Threads : ThreadFrombytesStep(t)

SpecThreads == InitThreads /\ [][NextThreads]_vars

\* ------------------------------------------------------------ family

\* A caller constructs instances of a class and of its descendant one
\* after another and writes to and decodes into any of them.
Families ==
    {{"ConstValues", "ConstChild"}, {"AutoLengthOffset", "AutoLengthChild"}}

\* What the caller writes to field f of an instance: an integer, and a
\* value of another type where the field checks its values.
FamilyValues(f) == WriteValues(f) \cap {IntV(255), BytesV(<<1>>)}

\* The constructor's keyword arguments: none, or one field with a value.
FamilyKwargs(c) ==
    {<<>>} \cup UNION {[{f.name} -> FamilyValues(f)] : f \in Range(fields(c))}

\* The buffer the caller decodes: 1, 2, 1, ... of the size of the
\* class's format.
FamilyBuffers(c) == {[i \in 1..calcsize(formatstring(c)) |-> 2 - (i % 2)]}

\* Instances constructed of one family in one behaviour.
MaxFamily == 2

\* Attributes looked up on the base class, as when a subclass gets none
\* of its own.
AttrOwner_base(name) ==
    IF ClassDefs[name].base = "BinmapDataclass" THEN name ELSE ClassDefs[name].base

\* The class on which self.__datafields and self.__datafieldsmap of an
\* instance of the class called name are found: __init_subclass__ gives
\* every class its own.
AttrOwner(name) == name

InitFamily ==
    /\ \E family \in Families :
          classvars = [name \in family |->
                          [c |-> ClassObject(name), datafields |-> <<>>,
                           datafieldsmap |-> {}]]
    /\ insts = <<>>
    /\ acted = NoAct
    /\ cls = <<>>
    /\ datafields = <<>>
    /\ datafieldsmap = {}
    /\ obj = [live |-> FALSE, d |-> <<>>]
    /\ last = NoCall
    /\ threads = <<>>

\* name(**kw) or name(binarydata): the new instance is added to insts
\* unless the call raises.
FamilyConstruct(name, kw, binarydata) ==
    LET c == classvars[name].c
        o == AttrOwner(name)
    IN /\ Len(insts) < MaxFamily
       /\ Len(classvars[o].datafields) < MaxFamily * Appended(c)
       /\ \E r \in {init(c, kw)} :
             IF r.err # ""
             THEN /\ acted' = [op |-> "construct", i |-> 0, err |-> r.err,
                               buf |-> binarydata]
                  /\ UNCHANGED <<insts, classvars>>
             ELSE \E st \in {post_init(c, r.d, classvars[o].datafields,
                                       classvars[o].datafieldsmap, binarydata)} :
                  /\ classvars' = [classvars EXCEPT
                                      ![o].datafields = st.datafields,
                                      ![o].datafieldsmap = st.datafieldsmap]
                  /\ insts' = IF st.err = ""
                              THEN Append(insts, [name |-> name, d |-> st.d])
                              ELSE insts
                  /\ acted' = [op |-> "construct",
                               i |-> IF st.err = "" THEN Len(insts) + 1 ELSE 0,
                               err |-> st.err, buf |-> binarydata]
       /\ UNCHANGED <<cls, datafields, datafieldsmap, obj, last, threads>>

\* insts[i].name = value
FamilyWrite(i, name, value) ==
    /\ \E r \in {SetAttr(classvars[insts[i].name].c, insts[i].d, name, value)} :
          /\ insts' = [insts EXCEPT ![i].d = r.d]
          /\ acted' = [op |-> "write", i |-> i, err |-> r.err, buf |-> <<>>]
    /\ UNCHANGED <<classvars, cls, datafields, datafieldsmap, obj, last, threads>>

\* insts[i].frombytes(value)
FamilyDecode(i, value) ==
    LET o == AttrOwner(insts[i].name) IN
    /\ \E r \in {frombytes(classvars[insts[i].name].c, insts[i].d,
                           classvars[o].datafields, classvars[o].datafieldsmap,
                           value)} :
          /\ insts' = [insts EXCEPT ![i].d = r.d]
          /\ acted' = [op |-> "frombytes", i |-> i, err |-> r.err, buf |-> value]
    /\ UNCHANGED <<classvars, cls, datafields, datafieldsmap, obj, last, threads>>

NextFamily ==
    \/ \E name \in DOMAIN classvars :
          \E kw \in FamilyKwargs(classvars[name].c) : FamilyConstruct(name, kw, <<>>)
    \/ \E name \in DOMAIN classvars :
          \E b \in FamilyBuffers(classvars[name].c) \ {<<>>} : FamilyConstruct(name, <<>>, b)
    \/ \E i \in 1..Len(insts) :
          \E f \in Range(fields(classvars[insts[i].name].c)) :
             \E value \in FamilyValues(f) : FamilyWrite(i, f.name, value)
    \/ \E i \in 1..Len(insts) :
          \E b \in FamilyBuffers(classvars[insts[i].name].c) : FamilyDecode(i, b)

SpecFamily == InitFamily /\ [][NextFamily]_vars

\* ------------------------------------------------------------ layout

\* The byte layout as the specification gives it: each field's declared
\* width, the inline fields in declaration order, the trailing field last.
FieldWidth(f) ==
    CASE f.type = "pad" -> f.default.n
      [] f.type = "string" -> f.metadata.length
      [] f.type = "unsignedshort" -> 2
      [] OTHER -> 1

RECURSIVE SumWidths(_)
SumWidths(fs) == IF fs = <<>> THEN 0 ELSE FieldWidth(Head(fs)) + SumWidths(Tail(fs))

LayoutSize(c) == SumWidths(fields(c))

LayoutOrder(c) ==
    SelectSeq(fields(c), LAMBDA f : ~IsLast(f)) \o SelectSeq(fields(c), IsLast)

LayoutIndex(c, name) ==
    CHOOSE i \in 1..Len(LayoutOrder(c)) : LayoutOrder(c)[i].name = name

Offset(c, name) == SumWidths(SubSeq(LayoutOrder(c), 1, LayoutIndex(c, name) - 1))

\* The bytes of buf at the position of the field called name.
Slice(c, name, buf) ==
    SubSeq(buf, Offset(c, name) + 1, Offset(c, name) + FieldWidth(FieldOf(c, name)))

\* The value those bytes hold in the field's format.
ValueAt(c, name, buf) ==
    UnpackItem(FieldType(FieldOf(c, name)), Slice(c, name, buf), byteorder(c))

FieldsWith(c, key) == {fields(c)[i] : i \in {j \in 1..Len(fields(c)) : Has(fields(c)[j], key)}}

ValueFields(c) == {fields(c)[i] : i \in {j \in 1..Len(fields(c)) : ~Has(fields(c)[j], "padding")}}

\* What a read of each non-padding field gives.
Reads(c, d) == [name \in {f.name : f \in ValueFields(c)} |-> GetAttr(c, d, name)]

\* The __dict__ that holds, for each field, the value of buf at the
\* field's position (the function itself for a calculated field).
RECURSIVE DecodedFrom(_, _, _)
DecodedFrom(c, fs, buf) ==
    IF fs = <<>> THEN <<>>
    ELSE IF Has(Head(fs), "padding") THEN DecodedFrom(c, Tail(fs), buf)
    ELSE <<[k |-> Head(fs).name,
            v |-> IF Has(Head(fs), "function") THEN FnV(Head(fs).metadata.function)
                  ELSE ValueAt(c, Head(fs).name, buf)]>>
         \o DecodedFrom(c, Tail(fs), buf)

\* The last call decoded a buffer of the size of the layout.
Decoded(ops) == last.op \in ops /\ Len(last.buf) = LayoutSize(cls) /\ last.buf # <<>>

\* ------------------------------------------------------------ claims

NoFixedValueFields(c) ==
    FieldsWith(c, "constant") \cup FieldsWith(c, "autolength")
        \cup FieldsWith(c, "function") = {}

\* C1: (as claimed) in a schema with no Calculated, AutoLength or Constant
\* field, decoding the bytes encode returned into a fresh instance gives
\* an instance whose every non-padding field reads as in the encoded one.
C1_RoundTrip ==
    [][(/\ NoFixedValueFields(cls)
        /\ last.op = "bytes" /\ last.err = ""
        /\ last'.op = "construct" /\ last'.buf = last.out)
       => (last'.err = "" /\ Reads(cls, obj'.d) = Reads(cls, obj.d))]_vars

\* C2: the bytes encode returns have exactly the length of the layout,
\* the sum of the declared widths of all fields, inherited ones included.
C2_FixedWidth ==
    (last.op = "bytes" /\ last.err = "") => Len(last.out) = LayoutSize(cls)

C2_Witness ==
    /\ last.op = "bytes" /\ last.err = ""
    /\ cls.name = "Pad" /\ Len(last.out) = 4
    /\ DictGet(obj.d, "humidity") = IntV(255)

TrailingBeforeOther(c) ==
    \E i \in 1..Len(fields(c)) : IsLast(fields(c)[i]) /\ i < Len(fields(c))

\* C3: (as claimed) in a schema whose trailing field is declared before
\* another field, decoding the bytes of an instance succeeds and restores
\* every field value.
C3_DecodeOrder ==
    [][(/\ TrailingBeforeOther(cls)
        /\ last.op = "bytes" /\ last.err = ""
        /\ last'.op \in {"construct", "frombytes"} /\ last'.buf = last.out)
       => (last'.err = "" /\ Reads(cls, obj'.d) = Reads(cls, obj.d))]_vars

OnlyCalculated(c) ==
    /\ FieldsWith(c, "function") # {}
    /\ FieldsWith(c, "constant") \cup FieldsWith(c, "autolength")
           \cup FieldsWith(c, "enum") = {}

\* The value of buf at each calculated field's position is its function
\* applied to the values buf holds for the other fields.
CalculatedMatches(c, buf) ==
    \A f \in FieldsWith(c, "function") :
        Call(f.metadata.function, DecodedFrom(c, fields(c), buf))
            = [err |-> "", v |-> ValueAt(c, f.name, buf)]

\* C4: (as claimed) decoding a buffer into a fresh instance of a schema
\* with a Calculated field succeeds exactly when the value at the field's
\* position is its function of the other fields as the buffer gives them,
\* and raises the calculated-value error otherwise.
C4_CalculatedCheck ==
    (Decoded({"construct"}) /\ OnlyCalculated(cls))
    => IF CalculatedMatches(cls, last.buf)
       THEN last.err = ""
       ELSE last.err = "Wrong calculated value"

\* The values of buf at the positions of the Constant and AutoLength
\* fields are the default and the layout size plus the offset.
FixedMatches(c, buf) ==
    /\ \A f \in FieldsWith(c, "constant") : ValueAt(c, f.name, buf) = f.default
    /\ \A f \in FieldsWith(c, "autolength") :
          ValueAt(c, f.name, buf) = IntV(LayoutSize(c) + f.default.n)

\* C5: (as claimed) a buffer of the right length is rejected when the
\* value at a Constant or AutoLength field's position is not the expected
\* one; when they match (and the schema has no other checked field) the
\* decode succeeds and the other fields take the values of the buffer.
C5_FixedValueCheck ==
    (/\ Decoded({"construct", "frombytes"})
     /\ FieldsWith(cls, "constant") \cup FieldsWith(cls, "autolength") # {})
    => /\ ~FixedMatches(cls, last.buf) => last.err # ""
       /\ (/\ FixedMatches(cls, last.buf)
           /\ FieldsWith(cls, "function") \cup FieldsWith(cls, "enum") = {})
          => /\ last.err = ""
             /\ \A f \in ValueFields(cls) :
                   GetAttr(cls, obj.d, f.name)
                       = [err |-> "", v |-> ValueAt(cls, f.name, last.buf)]

\* C6: (as claimed) when frombytes on an existing instance raises, every
\* field of the instance keeps the value it had before the call.
C6_AllOrNothing ==
    [][(last'.op = "frombytes" /\ last'.err # "") => obj' = obj]_vars

\* The value fits the field as encode packs it.
Fits(f, v) ==
    /\ PackAccepts(datatypemapping[f.type], v)
    /\ f.type = "string" => Len(v.s) <= f.metadata.length

\* C7: (as claimed) a write to a Plain field of a value that does not fit
\* raises and changes nothing; a value that fits is stored.
C7_EagerFitCheck ==
    [][(last'.op = "write" /\ Descriptor(FieldOf(cls, last'.name)) = "BinField")
       => IF Fits(FieldOf(cls, last'.name), last'.value)
          THEN last'.err = "" /\ obj'.d = DictSet(obj.d, last'.name, last'.value)
          ELSE last'.err # "" /\ obj' = obj]_vars

\* C8: (as claimed) encode never raises in a state reached by
\* construction, writes that did not raise and successful decodes, when
\* no Calculated field's function raises.
C8_EncodeNeverFails ==
    (/\ last.op = "bytes"
     /\ \A f \in FieldsWith(cls, "function") :
           Call(f.metadata.function, obj.d).err = "")
    => last.err = ""

\* C9: a Constant field always reads its default, encode emits the
\* default at its position, a write to it raises and the constructor
\* rejects a value passed for it, also for an inherited field.
C9_ConstantInvariance ==
    \A f \in FieldsWith(cls, "constant") :
        /\ obj.live => GetAttr(cls, obj.d, f.name) = [err |-> "", v |-> f.default]
        /\ (last.op = "bytes" /\ last.err = "")
           => Slice(cls, f.name, last.out) = PackItem(FieldType(f), f.default, byteorder(cls))
        /\ (last.op = "write" /\ last.name = f.name) => last.err = "AttributeError"
        /\ (last.op = "construct" /\ f.name \in last.kw) => last.err = "TypeError"

C9_Witness ==
    /\ cls.name = "ConstChild"
    /\ last.op = "write" /\ last.name = "datatype" /\ last.value = IntV(255)
    /\ last.err = "AttributeError"
    /\ DictGet(obj.d, "status") = IntV(2)

\* C10: an AutoLength field always reads the size of the complete layout
\* of the instance's own class plus its offset, and a write to it raises.
C10_AutoLengthValue ==
    \A f \in FieldsWith(cls, "autolength") :
        /\ obj.live => GetAttr(cls, obj.d, f.name)
                          = [err |-> "", v |-> IntV(LayoutSize(cls) + f.default.n)]
        /\ (last.op = "write" /\ last.name = f.name) => last.err = "AttributeError"

C10_Witness ==
    /\ cls.name = "AutoLengthChild"
    /\ last.op = "frombytes" /\ last.err = "" /\ last.buf = <<2, 1, 2>>
    /\ GetAttr(cls, obj.d, "length").v = IntV(2)

\* The current values of the fields that hold one: what a read of each
\* non-padding, non-calculated field gives, in declaration order.
RECURSIVE CurrentValues(_, _, _)
CurrentValues(c, fs, d) ==
    IF fs = <<>> THEN <<>>
    ELSE IF Has(Head(fs), "padding") \/ Has(Head(fs), "function")
    THEN CurrentValues(c, Tail(fs), d)
    ELSE <<[k |-> Head(fs).name, v |-> GetAttr(c, d, Head(fs).name).v]>>
         \o CurrentValues(c, Tail(fs), d)

\* calcFn of the calculated field f applied to the current values.
Projection(c, f, d) == Call(f.metadata.function, CurrentValues(c, fields(c), d))

\* C11: a read of a Calculated field, and the value encode emits at its
\* position, is its function of the instance's current field values; a
\* write to the field raises and changes nothing.
C11_CalculatedProjection ==
    [][\A f \in FieldsWith(cls, "function") :
          /\ obj'.live => GetAttr(cls, obj'.d, f.name) = Projection(cls, f, obj'.d)
          /\ (last'.op = "bytes" /\ last'.err = "")
             => Slice(cls, f.name, last'.out)
                  = PackItem(FieldType(f), Projection(cls, f, obj'.d).v, byteorder(cls))
          /\ (last'.op = "write" /\ last'.name = f.name)
             => (last'.err = "AttributeError" /\ obj' = obj)]_vars

C11_Witness ==
    /\ cls.name = "CalculatedField"
    /\ last.op = "bytes" /\ last.out = <<255, 255, 254>>
    /\ GetAttr(cls, obj.d, "checksum").v = IntV(254)

\* The value is a label of the field's mapping or a raw integer in its
\* domain.
EnumAccepts(f, v) ==
    \/ v.t = "str" /\ LabelNames[v.n] \in DOMAIN f.metadata.enum
    \/ v.t = "int" /\ \E l \in DOMAIN f.metadata.enum : f.metadata.enum[l] = v.n

\* The raw integer of a label or of an integer.
RawInteger(f, v) ==
    IF v.t = "str" THEN IntV(f.metadata.enum[LabelNames[v.n]]) ELSE v

\* C12: (as claimed) a write to an Enumerated field is accepted exactly
\* when the value is a label or a raw integer of the mapping; after an
\* accepted write the field holds the raw integer, and encode emits the
\* raw integer of each Enumerated field at its position.
C12_EnumWrite ==
    [][/\ (last'.op = "write" /\ Has(FieldOf(cls, last'.name), "enum"))
          => IF EnumAccepts(FieldOf(cls, last'.name), last'.value)
             THEN /\ last'.err = ""
                  /\ DictGet(obj'.d, last'.name)
                        = RawInteger(FieldOf(cls, last'.name), last'.value)
             ELSE last'.err # "" /\ obj' = obj
       /\ \A f \in FieldsWith(cls, "enum") :
             last'.op = "bytes"
             => /\ last'.err = ""
                /\ Slice(cls, f.name, last'.out)
                     = PackItem(FieldType(f), DictGet(obj'.d, f.name), byteorder(cls))]_vars

\* The fields decode checks against the buffer instead of assigning.
NoCheckedFields(c) ==
    FieldsWith(c, "constant") \cup FieldsWith(c, "autolength")
        \cup FieldsWith(c, "function") \cup FieldsWith(c, "enum") = {}

\* C13: a read of a Padding field raises, a write to it is accepted and
\* changes nothing, no value is stored for it, encode emits its width in
\* zero bytes at its position, and decode accepts any bytes there.
C13_PaddingOpacity ==
    [][\A f \in FieldsWith(cls, "padding") :
          /\ obj'.live
             => /\ GetAttr(cls, obj'.d, f.name).err = "AttributeError"
                /\ ~DictHas(obj'.d, f.name)
          /\ (last'.op = "write" /\ last'.name = f.name)
             => (last'.err = "" /\ obj' = obj)
          /\ (last'.op = "bytes" /\ last'.err = "")
             => Slice(cls, f.name, last'.out) = [i \in 1..FieldWidth(f) |-> 0]
          /\ (/\ last'.op \in {"construct", "frombytes"}
              /\ Len(last'.buf) = LayoutSize(cls)
              /\ NoCheckedFields(cls))
             => last'.err = ""]_vars

C13_Witness ==
    /\ cls.name = "Pad"
    /\ last.op = "frombytes" /\ last.err = "" /\ last.buf = <<1, 2, 1, 2>>
    /\ Len(obj.d) = 2 /\ GetAttr(cls, obj.d, "humidity").v = IntV(2)

\* C14: encode emits each field's current value, packed in the field's
\* own format, at the field's place in the layout: the inline fields of
\* the ancestors and then of the type in declaration order, the trailing
\* field last.
C14_EncodeLayoutOrder ==
    (last.op = "bytes" /\ last.err = "")
    => /\ Len(last.out) = LayoutSize(cls)
       /\ \A f \in ValueFields(cls) :
             Slice(cls, f.name, last.out)
                = PackItem(FieldType(f), GetAttr(cls, obj.d, f.name).v, byteorder(cls))

C14_Witness ==
    /\ cls.name = "CalculatedFieldLastInherit"
    /\ last.op = "bytes" /\ last.out = <<255, 255, 1, 255>>
    /\ GetAttr(cls, obj.d, "temp").v = IntV(-1)

\* The fields of the complete field set that are marked trailing.
TrailingFields(c) ==
    {f \in Range(fields(c)) : Has(f, "last") /\ f.metadata.last}

\* C15: the class statement raises exactly when more than one field of
\* the complete field set, inherited fields included, is marked trailing.
C15_TrailingUniqueness ==
    /\ cls.err # "" <=> Cardinality(TrailingFields(cls)) > 1
    /\ cls.err # "" => cls.err = "Can't have more than one last"

C15_Witness ==
    /\ cls.name = "MultiLastGrandchild"
    /\ cls.err = "Can't have more than one last"
    /\ Cardinality(TrailingFields(cls) \cap Range(ClassDefs[cls.name].own)) = 1

\* C16: decode of a buffer whose length is not the size of the layout
\* raises the length error of unpack, not the error of a field check, and
\* changes no field of the instance.
C16_LengthCheckFirst ==
    [][(/\ last'.op \in {"construct", "frombytes"}
        /\ last'.buf # <<>> \/ last'.op = "frombytes"
        /\ Len(last'.buf) # LayoutSize(cls))
       => (last'.err = "struct.error" /\ obj' = obj)]_vars

C16_Witness ==
    /\ cls.name = "ConstValues"
    /\ last.op = "frombytes" /\ last.buf = <<2, 2, 2>>
    /\ last.err = "struct.error"
    /\ GetAttr(cls, obj.d, "status").v = IntV(1)

\* C18: (as claimed) once the class is defined no construction, write,
\* encode or decode changes the class-level layout data: the format, the
\* name index and the ordered list of names that decode uses.
C18_SchemaImmutable ==
    [][/\ cls' = cls
       /\ datafieldsmap' = datafieldsmap
       /\ datafields' = datafields]_vars

\* The instance a thread that runs alone constructs, with the class
\* attributes its construction leaves.
Alone(c) ==
    PostInitLoop(c, fields(c),
        [err |-> "", d |-> init(c, <<>>).d, datafields |-> <<>>, datafieldsmap |-> {}])

\* What decode of value gives in a thread that runs alone.
AloneDecode(c, value) ==
    frombytes(c, Alone(c).d, Alone(c).datafields, Alone(c).datafieldsmap, value)

\* C17: (as claimed) whatever the interleaving of two threads that each
\* construct, encode and decode their own instance of one class, each
\* decode gives the field values it gives when the threads run one after
\* the other.
C17_SchemaSharing ==
    \A t \in DOMAIN threads :
        threads[t].pc = "done"
        => [err |-> threads[t].err, d |-> threads[t].d] = AloneDecode(cls, threads[t].buf)

\* The names the first instance of a class leaves in the class's list:
\* those of the non-padding fields, in declaration order.
RECURSIVE FirstNames(_)
FirstNames(fs) ==
    IF fs = <<>> THEN <<>>
    ELSE IF Has(Head(fs), "padding") THEN FirstNames(Tail(fs))
    ELSE <<Head(fs).name>> \o FirstNames(Tail(fs))

\* C19: among instances constructed one after another, of a class and of
\* its descendant, a decode on any of them pairs the unpacked values with
\* the names a decode on the first instance of its class pairs them with,
\* and a construction, write or decode changes no field of an instance
\* other than the one it is made on.
C19_InstancesIndependent ==
    [][/\ \A j \in 1..Len(insts) :
             j # acted'.i => (j <= Len(insts') /\ insts'[j] = insts[j])
       /\ acted'.op = "frombytes"
          => LET c == classvars[insts[acted'.i].name].c
             IN [err |-> acted'.err, d |-> insts'[acted'.i].d]
                  = frombytes(c, insts[acted'.i].d, FirstNames(fields(c)),
                              FieldNames(fields(c)), acted'.buf)]_vars

C19_Witness ==
    /\ Len(insts) = 2
    /\ insts[1].name = "ConstValues" /\ insts[2].name = "ConstChild"
    /\ acted.op = "frombytes" /\ acted.i = 2 /\ acted.err = ""
    /\ acted.buf = <<1, 2, 1>>
    /\ DictGet(insts[2].d, "humidity") = IntV(1)
    /\ DictGet(insts[1].d, "status") = IntV(255)

====
